---------------------------- MODULE Spec2Model ----------------------------
(***************************************************************************)
(* The Thursday Sniper Streamlit application (src/app.py) as a state       *)
(* machine.  One process serves one browser session; every user            *)
(* interaction reruns the script top to bottom.  A script run is split     *)
(* into its four blocks: load_model() (lines 20-29), the "not loaded"      *)
(* gate (34-36), the sidebar inputs (39-62) and the main logic (65-150).   *)
(*                                                                         *)
(* Numbers.  Pip quantities are integers.  A model output pred_log is      *)
(* written Ln(n), the natural logarithm of the positive integer n, so that *)
(* Exp(Ln(n)) = n is exact; the ADR is the rational num/den because        *)
(* line 57 divides by 3.  Floating-point rounding is outside the model.    *)
(***************************************************************************)
EXTENDS Integers, Sequences, FiniteSets

VARIABLES
    file_ok,        \* environment: thursday_model.json is on disk and loads
    cache,          \* st.cache_resource entry of load_model: <<>> or <<result>>
    loads,          \* how often the body of load_model has executed
    widgets,        \* session widget state (survives reruns)
    clicked,        \* the rerun in progress was triggered by the SNIPE button
    pc,             \* position of the script run
    cache_hit,      \* this run's load_model() call was served from the cache
    model, loaded,  \* line 29
    error_shown,    \* line 35
    inputs_read,    \* the sidebar block has run (lines 39-62)
    r_mon, b_mon_raw, r_tue, b_tue_raw, r_wed, b_wed, adr_val, week_num,
    predict_btn,
    predict_on,     \* the object model.predict was called on (line 79)
    exception,      \* uncaught exception that ended the run
    input_df, pred_log, pred_pips,
    bias_score, bias_text, bias_color,
    safe_zone, max_zone,
    results_shown,  \* lines 100-133 rendered
    warning_shown,  \* line 136
    info_shown,     \* line 138
    welcome_shown,  \* lines 141-150
    memo            \* observer: one earlier prediction's bodies and label

envVars  == <<file_ok>>
procVars == <<cache, loads>>
sessVars == <<widgets, clicked>>
loadVars == <<cache_hit, model, loaded>>
inVars   == <<inputs_read, r_mon, b_mon_raw, r_tue, b_tue_raw, r_wed, b_wed,
              adr_val, week_num, predict_btn>>
resVars  == <<predict_on, exception, input_df, pred_log, pred_pips,
              bias_score, bias_text, bias_color, safe_zone, max_zone,
              results_shown, warning_shown, info_shown, welcome_shown>>
outVars  == <<error_shown, resVars>>
vars == <<envVars, procVars, sessVars, pc, loadVars, inVars, outVars, memo>>

-----------------------------------------------------------------------------
(* Bounds of the model *)

\* Magnitude of the bodies the user types (besides the defaults and 0).
MaxBody == 1
\* loads saturates here; the code itself never gets past 1.
MaxLoads == 2

(* Program constants *)
DefaultRMon == 60
DefaultBMon == 10
DefaultRTue == 70
DefaultBTue == -20
DefaultRWed == 55
DefaultBWed == 30
DefaultWeekIndex == 1
median_error == 18
HighVolatility == 100
LowVolatility == 60

WeekChoices == <<1, 2, 3, 4>>

-----------------------------------------------------------------------------
(* Arithmetic *)

Abs(x) == IF x < 0 THEN -x ELSE x

\* The real number ln(n), n a positive integer.
Ln(n) == [ln |-> n]
\* exp is the inverse of ln.
Exp(x) == x.ln
\* The rational a/b.
Ratio(a, b) == [num |-> a, den |-> b]

\* Faulty variant: np.exp in place of np.expm1.
Expm1Plain(x) == Exp(x)
\* Line 80: np.expm1(x) = exp(x) - 1.
Expm1(x) == Exp(x) - 1


-----------------------------------------------------------------------------
(* Input domains: what the user may type into each widget *)

BodyVals == {-MaxBody, 0, MaxBody}
WidgetDomain ==
    [r_mon     |-> {DefaultRMon, DefaultRMon + 1},
     b_mon_raw |-> BodyVals \cup {DefaultBMon},
     r_tue     |-> {DefaultRTue, DefaultRTue + 1},
     b_tue_raw |-> BodyVals \cup {DefaultBTue},
     r_wed     |-> {DefaultRWed, DefaultRWed + 1},
     b_wed     |-> {DefaultBWed, -5},
     adr_val   |-> {Ratio(80, 1)},
     week_num  |-> {WeekChoices[i] : i \in 1..Len(WeekChoices)}]
WidgetNames == DOMAIN WidgetDomain
RangeWidgets == {"r_mon", "r_tue", "r_wed"}

\* Outputs of the opaque regressor: ln(n) for these n, i.e. targets n - 1.
PredLogs == {Ln(n) : n \in {60, 61, 101, 102}}

-----------------------------------------------------------------------------
(* load_model and its cache (lines 20-29) *)

\* Faulty variant: the decorator forgotten, every call runs the body.
CachedNever(c) == FALSE
\* @st.cache_resource: a stored result is returned without running the body.
Cached(c) == c # <<>>

\* The body of load_model: (model, True), or (None, False) on any exception.
load_model(ok) == IF ok THEN <<"XGBRegressor", TRUE>> ELSE <<"None", FALSE>>

LoadModel ==
    /\ pc = "load"
    /\ IF Cached(cache)
         THEN /\ cache_hit' = TRUE
              /\ UNCHANGED procVars
         ELSE /\ cache_hit' = FALSE
              /\ cache' = <<load_model(file_ok)>>
              /\ loads' = IF loads < MaxLoads THEN loads + 1 ELSE loads
    /\ model' = cache'[1][1]
    /\ loaded' = cache'[1][2]
    /\ pc' = "gate"
    /\ UNCHANGED <<envVars, sessVars, inVars, outVars, memo>>

-----------------------------------------------------------------------------
(* The gate (lines 34-36) *)

\* Faulty variant: st.stop() forgotten, the error is shown and the script goes on.
CheckLoadedNoStop ==
    /\ pc = "gate"
    /\ error_shown' = ~loaded
    /\ pc' = "sidebar"
    /\ UNCHANGED <<envVars, procVars, sessVars, loadVars, inVars, resVars, memo>>
CheckLoaded ==
    /\ pc = "gate"
    /\ IF ~loaded
         THEN /\ error_shown' = TRUE
              /\ pc' = "stopped"
         ELSE /\ error_shown' = FALSE
              /\ pc' = "sidebar"
    /\ UNCHANGED <<envVars, procVars, sessVars, loadVars, inVars, resVars, memo>>

-----------------------------------------------------------------------------
(* The sidebar (lines 39-62) *)

\* Line 57: the default of the ADR input.
est_adr(rm, rt, rw) == Ratio(rm + rt + rw, 3)

Sidebar ==
    /\ pc = "sidebar"
    /\ inputs_read' = TRUE
    /\ r_mon' = widgets.r_mon
    /\ b_mon_raw' = widgets.b_mon_raw
    /\ r_tue' = widgets.r_tue
    /\ b_tue_raw' = widgets.b_tue_raw
    /\ r_wed' = widgets.r_wed
    /\ b_wed' = widgets.b_wed
    /\ adr_val' = widgets.adr_val
    /\ week_num' = widgets.week_num
    /\ predict_btn' = clicked
    /\ pc' = "main"
    /\ UNCHANGED <<envVars, procVars, sessVars, loadVars, outVars, memo>>

-----------------------------------------------------------------------------
(* The main logic (lines 65-150) *)

features == <<"Range_Monday", "Range_Tuesday", "Range_Wednesday",
              "Body_Monday", "Body_Tuesday", "Body_Wednesday",
              "ADR_5_Wednesday", "Week_Num_Wednesday">>

\* Faulty variant: abs() forgotten on the two signed bodies.
InputRowSigned(rm, bmr, rt, btr, rw, bw, adr, wk) ==
    <<rm, rt, rw, bmr, btr, bw, adr, wk>>
\* Lines 67-76: the single row of input_df, in the order of features.
InputRow(rm, bmr, rt, btr, rw, bw, adr, wk) ==
    LET b_mon == Abs(bmr)
        b_tue == Abs(btr)
    IN  <<rm, rt, rw, b_mon, b_tue, bw, adr, wk>>

\* Faulty variant: Wednesday's body read in place of Tuesday's.
BiasBodiesWed == <<b_mon_raw, b_wed>>
\* The two values lines 84-87 test.
BiasBodies == <<b_mon_raw, b_tue_raw>>

\* Faulty variant: "> 0" written ">= 0".
BiasScoreLoose(bm, bt) ==
    LET s1 == IF bm >= 0 THEN 1 ELSE 0
        s2 == IF bt >= 0 THEN s1 + 1 ELSE s1
        s3 == IF bm < 0 THEN s2 - 1 ELSE s2
    IN  IF bt < 0 THEN s3 - 1 ELSE s3
\* Lines 83-87.
BiasScore(bm, bt) ==
    LET s0 == 0
        s1 == IF bm > 0 THEN s0 + 1 ELSE s0
        s2 == IF bt > 0 THEN s1 + 1 ELSE s1
        s3 == IF bm < 0 THEN s2 - 1 ELSE s2
        s4 == IF bt < 0 THEN s3 - 1 ELSE s3
    IN  s4

\* Faulty variant: the first test written "score >= 0".
BiasTextLoose(score) ==
    IF score >= 0 THEN "BULLISH (Buy Dips)"
    ELSE IF score <= -1 THEN "BEARISH (Sell Rallies)"
    ELSE "NEUTRAL / CHOPPY"
\* Lines 89-97: the label.
BiasText(score) ==
    IF score >= 1 THEN "BULLISH (Buy Dips)"
    ELSE IF score <= -1 THEN "BEARISH (Sell Rallies)"
    ELSE "NEUTRAL / CHOPPY"
\* Lines 89-97: its colour.
BiasColor(score) ==
    IF score >= 1 THEN "#4ade80"
    ELSE IF score <= -1 THEN "#f87171"
    ELSE "#facc15"

\* Line 117.
SafeZone(p) == p - median_error
\* Faulty variant: the margin added twice.
MaxZoneWide(p) == p + 2 * median_error
\* Line 118.
MaxZone(p) == p + median_error

\* Faulty variant: "> 100" written ">= 100".
HighAlertLoose(p) == p >= HighVolatility
\* Line 135.
HighAlert(p) == p > HighVolatility
\* Line 137: an elif, reached only when line 135 is false.
LowAlert(p) == ~HighAlert(p) /\ p < LowVolatility

Main ==
    /\ pc = "main"
    /\ pc' = "done"
    /\ IF predict_btn
         THEN /\ input_df' = InputRow(r_mon, b_mon_raw, r_tue, b_tue_raw,
                                      r_wed, b_wed, adr_val, week_num)
              /\ predict_on' = model
              /\ welcome_shown' = FALSE
              /\ IF model = "None"
                   THEN \* None has no attribute predict: line 79 raises
                        /\ exception' = "AttributeError"
                        /\ UNCHANGED <<pred_log, pred_pips, bias_score, bias_text,
                                       bias_color, safe_zone, max_zone,
                                       results_shown, warning_shown, info_shown>>
                   ELSE \E out \in PredLogs :
                        /\ pred_log' = out
                        /\ pred_pips' = Expm1(out)
                        /\ bias_score' = BiasScore(BiasBodies[1], BiasBodies[2])
                        /\ bias_text' = BiasText(bias_score')
                        /\ bias_color' = BiasColor(bias_score')
                        /\ safe_zone' = SafeZone(pred_pips')
                        /\ max_zone' = MaxZone(pred_pips')
                        /\ results_shown' = TRUE
                        /\ warning_shown' = HighAlert(pred_pips')
                        /\ info_shown' = LowAlert(pred_pips')
                        /\ UNCHANGED exception
         ELSE /\ welcome_shown' = TRUE
              /\ UNCHANGED <<predict_on, exception, input_df, pred_log, pred_pips,
                             bias_score, bias_text, bias_color, safe_zone,
                             max_zone, results_shown, warning_shown, info_shown>>
    /\ UNCHANGED <<envVars, procVars, sessVars, loadVars, inVars, error_shown, memo>>

-----------------------------------------------------------------------------
(* A script run starts with nothing defined and nothing on the page *)

Fresh ==
    /\ cache_hit = FALSE /\ model = "unset" /\ loaded = FALSE
    /\ error_shown = FALSE /\ inputs_read = FALSE
    /\ r_mon = 0 /\ b_mon_raw = 0 /\ r_tue = 0 /\ b_tue_raw = 0
    /\ r_wed = 0 /\ b_wed = 0 /\ adr_val = Ratio(0, 1) /\ week_num = 0
    /\ predict_btn = FALSE
    /\ predict_on = "unset" /\ exception = "none"
    /\ input_df = <<>> /\ pred_log = Ln(1) /\ pred_pips = 0
    /\ bias_score = 0 /\ bias_text = "" /\ bias_color = ""
    /\ safe_zone = 0 /\ max_zone = 0
    /\ results_shown = FALSE /\ warning_shown = FALSE /\ info_shown = FALSE
    /\ welcome_shown = FALSE

StartRun(click) ==
    /\ pc' = "load"
    /\ clicked' = click
    /\ cache_hit' = FALSE /\ model' = "unset" /\ loaded' = FALSE
    /\ error_shown' = FALSE /\ inputs_read' = FALSE
    /\ r_mon' = 0 /\ b_mon_raw' = 0 /\ r_tue' = 0 /\ b_tue_raw' = 0
    /\ r_wed' = 0 /\ b_wed' = 0 /\ adr_val' = Ratio(0, 1) /\ week_num' = 0
    /\ predict_btn' = FALSE
    /\ predict_on' = "unset" /\ exception' = "none"
    /\ input_df' = <<>> /\ pred_log' = Ln(1) /\ pred_pips' = 0
    /\ bias_score' = 0 /\ bias_text' = "" /\ bias_color' = ""
    /\ safe_zone' = 0 /\ max_zone' = 0
    /\ results_shown' = FALSE /\ warning_shown' = FALSE /\ info_shown' = FALSE
    /\ welcome_shown' = FALSE

-----------------------------------------------------------------------------
(* The user (each interaction reruns the script) and the file system *)

\* A widget of the sidebar is edited.  The ADR input's default is est_adr
\* (line 58), so a new range gives a new input holding the new default.
EditWidget(w, v) ==
    /\ pc = "done"
    /\ inputs_read
    /\ v # widgets[w]
    /\ widgets' = IF w \in RangeWidgets
                    THEN LET n == [widgets EXCEPT ![w] = v]
                         IN  [n EXCEPT !.adr_val = est_adr(n.r_mon, n.r_tue, n.r_wed)]
                    ELSE [widgets EXCEPT ![w] = v]
    /\ StartRun(FALSE)
    /\ UNCHANGED <<envVars, procVars, memo>>

\* Line 62: the button is True in the run its click triggers.
ClickSnipe ==
    /\ pc = "done"
    /\ inputs_read
    /\ StartRun(TRUE)
    /\ UNCHANGED <<envVars, procVars, widgets, memo>>

\* The page is rerun without any widget changing.
Rerun ==
    /\ pc \in {"done", "stopped"}
    /\ StartRun(FALSE)
    /\ UNCHANGED <<envVars, procVars, widgets, memo>>

FileAppears ==
    /\ ~file_ok
    /\ file_ok' = TRUE
    /\ UNCHANGED <<procVars, sessVars, pc, loadVars, inVars, outVars, memo>>

FileRemoved ==
    /\ file_ok
    /\ file_ok' = FALSE
    /\ UNCHANGED <<procVars, sessVars, pc, loadVars, inVars, outVars, memo>>

\* Observer: keep the bodies and the label of a displayed prediction, once.
Remember ==
    /\ pc = "done"
    /\ results_shown
    /\ ~memo.set
    /\ memo' = [set |-> TRUE, bm |-> b_mon_raw, bt |-> b_tue_raw,
                text |-> bias_text, warned |-> warning_shown]
    /\ UNCHANGED <<envVars, procVars, sessVars, pc, loadVars, inVars, outVars>>

-----------------------------------------------------------------------------
Init ==
    /\ file_ok \in BOOLEAN
    /\ cache = <<>>
    /\ loads = 0
    /\ widgets = [r_mon     |-> DefaultRMon,
                  b_mon_raw |-> DefaultBMon,
                  r_tue     |-> DefaultRTue,
                  b_tue_raw |-> DefaultBTue,
                  r_wed     |-> DefaultRWed,
                  b_wed     |-> DefaultBWed,
                  adr_val   |-> est_adr(DefaultRMon, DefaultRTue, DefaultRWed),
                  week_num  |-> WeekChoices[DefaultWeekIndex + 1]]
    /\ clicked = FALSE
    /\ pc = "load"
    /\ Fresh
    /\ memo = [set |-> FALSE, bm |-> 0, bt |-> 0, text |-> "", warned |-> FALSE]

Next ==
    \/ LoadModel
    \/ CheckLoaded
    \/ Sidebar
    \/ Main
    \/ \E w \in WidgetNames : \E v \in WidgetDomain[w] : EditWidget(w, v)
    \/ ClickSnipe
    \/ Rerun
    \/ FileAppears
    \/ FileRemoved

Spec == Init /\ [][Next]_vars

\* The program with the observer attached and the model file left alone.
NextPair ==
    \/ LoadModel
    \/ CheckLoaded
    \/ Sidebar
    \/ Main
    \/ \E w \in WidgetNames : \E v \in WidgetDomain[w] : EditWidget(w, v)
    \/ ClickSnipe
    \/ Rerun
    \/ Remember

SpecPair == Init /\ [][NextPair]_vars

-----------------------------------------------------------------------------
(* Properties *)

Bullish == "BULLISH (Buy Dips)"
Bearish == "BEARISH (Sell Rallies)"
Neutral == "NEUTRAL / CHOPPY"

\* What one signed body adds to the score.
Contribution(x) == IF x > 0 THEN 1 ELSE IF x < 0 THEN -1 ELSE 0

\* BULLISH and BEARISH exchanged.
Swapped(t) == IF t = Bullish THEN Bearish ELSE IF t = Bearish THEN Bullish ELSE t

\* C1: on every displayed prediction the score is the sum of the two bodies'
\* contributions (+1 if > 0, -1 if < 0, nothing if 0), lies in -2..2, and
\* the label is BULLISH iff score >= 1, BEARISH iff score <= -1, NEUTRAL
\* otherwise: exactly one of the three.
C1_BiasRule ==
    results_shown =>
        /\ bias_score = Contribution(b_mon_raw) + Contribution(b_tue_raw)
        /\ bias_score \in -2..2
        /\ bias_text \in {Bullish, Bearish, Neutral}
        /\ (bias_text = Bullish) <=> (bias_score >= 1)
        /\ (bias_text = Bearish) <=> (bias_score <= -1)
        /\ (bias_text = Neutral) <=> (bias_score = 0)

\* A flat Monday and a red Tuesday: the zero contributes nothing.
C1_Witness ==
    /\ results_shown
    /\ b_mon_raw = 0 /\ b_tue_raw < 0
    /\ bias_score = -1 /\ bias_text = Bearish

\* C2: in a run whose load did not succeed the error is reported and the
\* script halts at the gate: no input is read, predict is not called, no
\* target, safe, max or bias output appears; and predict is never called on
\* None in any run.
C2_FailFast ==
    /\ predict_on # "None"
    /\ (pc # "load" /\ ~loaded) =>
          /\ pc \in {"gate", "stopped"}
          /\ pc = "stopped" => error_shown
          /\ ~inputs_read
          /\ predict_on = "unset"
          /\ ~results_shown
          /\ <<pred_pips, safe_zone, max_zone, bias_text>> = <<0, 0, 0, "">>

\* The run has halted on the error with the model missing.
C2_Witness ==
    /\ pc = "stopped"
    /\ model = "None" /\ ~loaded
    /\ error_shown /\ ~inputs_read

\* C3: the body of load_model runs at most once per process, a stored
\* outcome never changes, every prediction uses the stored handle, and
\* after a failed load no later run predicts, whatever happens to the file.
C3_LoadOnce ==
    [][/\ loads' <= 1
       /\ cache # <<>> => cache' = cache
       /\ predict_on' # "unset" =>
              cache' # <<>> /\ cache'[1][2] /\ predict_on' = cache'[1][1]
       /\ (cache' # <<>> /\ ~cache'[1][2]) =>
              ~results_shown' /\ predict_on' = "unset"]_vars

\* A rerun served the stored failure although the file is now on disk.
C3_Witness ==
    /\ pc = "gate"
    /\ cache_hit /\ ~loaded
    /\ file_ok
    /\ loads = 1

\* C4: the row handed to the model has the 8 fields range_mon, range_tue,
\* range_wed, |body_mon|, |body_tue|, body_wed, adr, week in that order.
C4_FeatureOrder ==
    predict_on # "unset" =>
        /\ Len(input_df) = 8
        /\ Len(features) = 8
        /\ input_df = <<r_mon, r_tue, r_wed,
                        IF b_mon_raw < 0 THEN -b_mon_raw ELSE b_mon_raw,
                        IF b_tue_raw < 0 THEN -b_tue_raw ELSE b_tue_raw,
                        b_wed, adr_val, week_num>>

\* A prediction from edited inputs with a red Tuesday.
C4_Witness ==
    /\ results_shown
    /\ b_tue_raw < 0 /\ input_df[5] = -b_tue_raw
    /\ r_mon # DefaultRMon /\ input_df[1] = r_mon
    /\ week_num = 4 /\ input_df[8] = 4

\* C5: safe = target - 18 and max = target + 18, hence max - safe = 36 and
\* safe + max = 2 * target, on every displayed prediction.
C5_Band ==
    results_shown =>
        /\ safe_zone = pred_pips - 18
        /\ max_zone = pred_pips + 18
        /\ max_zone - safe_zone = 36
        /\ safe_zone + max_zone = 2 * pred_pips

\* A target of 101 pips with its band.
C5_Witness ==
    /\ results_shown
    /\ pred_pips = 101
    /\ safe_zone = 83 /\ max_zone = 119

\* C6: a prediction whose two bodies are the negation of an earlier
\* prediction's has that prediction's label with BULLISH and BEARISH
\* exchanged (NEUTRAL stays), and the label is NEUTRAL exactly when the two
\* sign contributions sum to 0.
C6_NegationSymmetry ==
    results_shown =>
        /\ (bias_text = Neutral) <=>
               (Contribution(b_mon_raw) + Contribution(b_tue_raw) = 0)
        /\ (memo.set /\ memo.bm = -b_mon_raw /\ memo.bt = -b_tue_raw) =>
               bias_text = Swapped(memo.text)

\* BULLISH was displayed for (bm, bt), BEARISH now for (-bm, -bt).
C6_Witness ==
    /\ results_shown /\ memo.set
    /\ b_mon_raw # 0
    /\ memo.bm = -b_mon_raw /\ memo.bt = -b_tue_raw
    /\ memo.text = Bullish /\ bias_text = Bearish

\* C7: the high-volatility warning is shown iff target > 100, the
\* low-volatility note iff target < 60, never both, neither from 60 to 100;
\* and neither without a prediction.
C7_Advisories ==
    /\ results_shown =>
          /\ warning_shown <=> (pred_pips > 100)
          /\ info_shown <=> (pred_pips < 60)
          /\ ~(warning_shown /\ info_shown)
          /\ (60 <= pred_pips /\ pred_pips <= 100) =>
                 (~warning_shown /\ ~info_shown)
    /\ ~results_shown => (~warning_shown /\ ~info_shown)

\* The upper boundary: a target of exactly 100 shows neither.
C7_Witness ==
    /\ results_shown
    /\ pred_pips = 100
    /\ ~warning_shown /\ ~info_shown

\* C8: a prediction with the same two signed bodies as an earlier
\* prediction of the process has the same label.
C8_BiasDependsOnBodiesOnly ==
    (results_shown /\ memo.set /\ memo.bm = b_mon_raw /\ memo.bt = b_tue_raw)
        => bias_text = memo.text

\* Same bodies and label as the earlier prediction; the model's output, the
\* Wednesday body, a range, the ADR and the week differ from then or from
\* their defaults.
C8_Witness ==
    /\ results_shown /\ memo.set
    /\ memo.bm = b_mon_raw /\ memo.bt = b_tue_raw
    /\ bias_text = memo.text
    /\ memo.warned /\ ~warning_shown
    /\ b_wed # DefaultBWed /\ r_tue # DefaultRTue
    /\ adr_val.den = 1 /\ week_num = 1

\* C9: the three body fields of every row handed to the model are >= 0.
C9_BodiesUnsigned ==
    predict_on # "unset" =>
        /\ input_df[4] >= 0
        /\ input_df[5] >= 0
        /\ input_df[6] >= 0

\* C10: target = exp(pred_log) - 1; a model returning ln(101) gives 100, one
\* returning ln(61) gives target 60, safe 42, max 78.
C10_InverseLog1p ==
    results_shown =>
        /\ pred_pips = Exp(pred_log) - 1
        /\ pred_log = Ln(101) => pred_pips = 100
        /\ pred_log = Ln(61) =>
               (pred_pips = 60 /\ safe_zone = 42 /\ max_zone = 78)

\* The end-to-end scenario of the defaults with the model returning ln(61).
C10_Witness ==
    /\ results_shown
    /\ pred_log = Ln(61)
    /\ pred_pips = 60 /\ safe_zone = 42 /\ max_zone = 78
    /\ b_mon_raw = DefaultBMon /\ b_tue_raw = DefaultBTue
    /\ bias_text = Neutral

=============================================================================
